---- MODULE Spec2Model ----
(***************************************************************************)
(* FastDTW (src/fastdtw/_fastdtw.pyx and its sibling variants): the        *)
(* constrained DTW solver, the coarsener, the window expander and the      *)
(* recursive driver, as a state machine whose steps are the calls and      *)
(* returns of the recursion.                                               *)
(*                                                                         *)
(* Numbers.  Sequence elements are integers; the element v stands for the  *)
(* real v / Unit, so that the pairwise averages of the coarsener are       *)
(* integers again (Values are multiples of Unit, Exact below checks that   *)
(* no average is ever rounded).  Costs are integers, and Inf stands for    *)
(* the IEEE +infinity of the cost table: Inf + d = Inf, and Inf < Inf is   *)
(* false.                                                                  *)
(***************************************************************************)
EXTENDS Integers, Sequences, FiniteSets, TLC

VARIABLES
    impl,     \* which source variant runs: "map" (C++ map table) or "dict" (defaultdict table)
    dist,     \* the distance function the caller passes
    x, y,     \* the caller's sequences
    radii,    \* the radius of each successive fastdtw call the caller makes on x, y
    window,   \* the window argument of a direct dtw call
    cpath,    \* the coarse path argument of a direct expand_window call
    lens,     \* <<len_x, len_y>> of a direct expand_window call
    stack,    \* the active fastdtw calls, outermost first: each frame holds its x and y
    pc,       \* "idle", "call" (top frame entered), "return" (callee returned to top frame)
    ret,      \* the value the last completed call returned
    results   \* what the caller got back, one entry per finished top-level call

vars == <<impl, dist, x, y, radii, window, cpath, lens, stack, pc, ret, results>>

(***************************************************************************)
(* Bounds of the model.                                                    *)
(***************************************************************************)
MaxLen == 4        \* longest sequence the caller passes to fastdtw
MaxRadius == 2     \* largest radius the caller passes
MaxDtwLen == 3     \* longest sequence of a direct dtw call with a window
MaxCells == 6      \* most grid cells of a direct dtw call with a window
MaxShort == 3      \* longest of the short sequences of the two-radius calls
MaxGrid == 7       \* largest len_x, len_y of a direct expand_window call
MaxHalvings == 2   \* most nested coarsenings of the calls below

\* one unit of the model is 2^-MaxHalvings of the caller's value 1
Unit == 2 ^ MaxHalvings
Values == {0, Unit}

Inf == 1000000
\* a window argument: None, or a list of cells
None == [given |-> FALSE, cells |-> <<>>]
Given(w) == [given |-> TRUE, cells |-> w]

Min2(a, b) == IF a < b THEN a ELSE b
Max2(a, b) == IF a > b THEN a ELSE b

SeqsOfLen(S, n) == [1..n -> S]
SeqsUpTo(S, n) == UNION {SeqsOfLen(S, k) : k \in 0..n}

RECURSIVE Reverse(_)
Reverse(s) == IF s = <<>> THEN <<>> ELSE Append(Reverse(Tail(s)), Head(s))

(***************************************************************************)
(* The distance functions.  "abs" is the default lambda a, b: abs(a - b)   *)
(* (and manhattan); "hinge" is a caller-supplied, non-negative and         *)
(* asymmetric function, max(a - b, 0).                                     *)
(***************************************************************************)
DistKinds == {"abs", "hinge"}

manhattan(a, b) == IF a >= b THEN a - b ELSE b - a

Dist(d, a, b) ==
    IF d = "abs" THEN manhattan(a, b)
    ELSE IF a >= b THEN a - b ELSE 0

(***************************************************************************)
(* The cost table D: a sparse map from internal (1-based) cells to         *)
(* CostEntry records; DOMAIN D is the set of populated cells.              *)
(***************************************************************************)
CostEntry(c, pi, pj) == [cost |-> c, prev_x_idx |-> pi, prev_y_idx |-> pj]

\* cost + dt in IEEE arithmetic with +infinity
Plus(c, dt) == IF c = Inf THEN Inf ELSE c + dt

\* __get_cost: the cost of a populated cell, inf for a missing one
get_cost(D, i, j) == IF <<i, j>> \in DOMAIN D THEN D[<<i, j>>].cost ELSE Inf

\* StepMap with the second test comparing left against up
StepMapLeftVsUp(D, i, j, dt) ==
    LET cost_up == get_cost(D, i - 1, j)
        cost_left == get_cost(D, i, j - 1)
        cost_cnr == get_cost(D, i - 1, j - 1)
    IN  IF cost_up < cost_left /\ cost_up < cost_cnr
          THEN CostEntry(Plus(cost_up, dt), i - 1, j)
        ELSE IF cost_left < cost_up
          THEN CostEntry(Plus(cost_left, dt), i, j - 1)
        ELSE CostEntry(Plus(cost_cnr, dt), i - 1, j - 1)

\* the three-way comparison of the map variants (_fastdtw.pyx, part_000, part_001)
StepMap(D, i, j, dt) ==
    LET cost_up == get_cost(D, i - 1, j)
        cost_left == get_cost(D, i, j - 1)
        cost_cnr == get_cost(D, i - 1, j - 1)
    IN  IF cost_up < cost_left /\ cost_up < cost_cnr
          THEN CostEntry(Plus(cost_up, dt), i - 1, j)
        ELSE IF cost_left < cost_cnr
          THEN CostEntry(Plus(cost_left, dt), i, j - 1)
        ELSE CostEntry(Plus(cost_cnr, dt), i - 1, j - 1)

\* the three-way comparison of the defaultdict variant (fastdtw.pyx); its
\* branch j == len_y + 1 never runs, j being at most len_y - 1
StepDict(D, i, j, dt) ==
    LET d_00 == get_cost(D, i - 1, j - 1)
        d_10 == get_cost(D, i, j - 1)
        d_01 == get_cost(D, i - 1, j)
    IN  IF d_00 < d_10 /\ d_00 < d_01
          THEN CostEntry(Plus(d_00, dt), i - 1, j - 1)
        ELSE IF d_10 < d_01
          THEN CostEntry(Plus(d_10, dt), i, j - 1)
        ELSE CostEntry(Plus(d_01, dt), i - 1, j)

Step(v, D, i, j, dt) == IF v = "map" THEN StepMap(D, i, j, dt) ELSE StepDict(D, i, j, dt)

\* window = None: the full grid, row by row
FullWindow(len_x, len_y) ==
    [k \in 1..(len_x * len_y) |-> <<(k - 1) \div len_y, (k - 1) % len_y>>]

\* the table before the loop: the origin alone
D0 == (<<0, 0>> :> CostEntry(0, 0, 0))

\* one pass of the loop body: the cell w[k] enters the table
Visit(v, d, xs, ys, w, k, D) ==
    LET i == w[k][1] + 1
        j == w[k][2] + 1
        dt == Dist(d, xs[i], ys[j])
    IN  (<<i, j>> :> Step(v, D, i, j, dt)) @@ D

\* the loop over the window cells w[lo..hi], in window order: the first half,
\* then the second half from the table half that the first half left
RECURSIVE Fill(_, _, _, _, _, _, _, _)
Fill(v, d, xs, ys, w, lo, hi, D) ==
    IF lo > hi THEN D
    ELSE IF lo = hi THEN Visit(v, d, xs, ys, w, lo, D)
    ELSE LET mid == (lo + hi) \div 2
         IN  CHOOSE full \in {Fill(v, d, xs, ys, w, mid + 1, hi, half) :
                                 half \in {Fill(v, d, xs, ys, w, lo, mid, D)}} : TRUE

\* what reading D[i, j] gives in the map variants: operator[] of the C++ map
\* inserts a zeroed CostEntry for a missing key
Lookup(D, i, j) == IF <<i, j>> \in DOMAIN D THEN D[<<i, j>>] ELSE CostEntry(0, 0, 0)

\* the backtracking loop; acc is the path in reverse
RECURSIVE Backtrack(_, _, _, _)
Backtrack(D, i, j, acc) ==
    IF i = 0 /\ j = 0 THEN acc
    ELSE LET e == Lookup(D, i, j)
         IN  Backtrack(D, e.prev_x_idx, e.prev_y_idx, Append(acc, <<i - 1, j - 1>>))

\* the cells the backtracking loop reads, in the order it reads them
RECURSIVE Visited(_, _, _)
Visited(D, i, j) ==
    IF i = 0 /\ j = 0 THEN <<>>
    ELSE LET e == Lookup(D, i, j)
         IN  <<<<i, j>>>> \o Visited(D, e.prev_x_idx, e.prev_y_idx)

Value(c, p) == [kind |-> "value", cost |-> c, path |-> p]
Fault(what) == [kind |-> what, cost |-> 0, path |-> <<>>]

\* the window the loop runs over
Effective(win, len_x, len_y) == IF win.given THEN win.cells ELSE FullWindow(len_x, len_y)

\* the cost table after the loop
Table(v, d, xs, ys, win) ==
    LET w == Effective(win, Len(xs), Len(ys))
    IN  Fill(v, d, xs, ys, w, 1, Len(w), D0)

\* the backtracking and the return.  The map variants read a missing entry
\* as a zeroed one; in the defaultdict variant a missing entry is the 1-tuple
\* (inf,), and reading its predecessor raises IndexError.
Finish(v, D, len_x, len_y) ==
    LET seen == Visited(D, len_x, len_y)
    IN  IF v = "dict" /\ \E k \in 1..Len(seen) : seen[k] \notin DOMAIN D
          THEN Fault("IndexError")
        ELSE Value(Lookup(D, len_x, len_y).cost, Reverse(Backtrack(D, len_x, len_y, <<>>)))

\* dtw(x, y, window, dist) of variant v, the window's cells being cells of the grid
dtw(v, d, xs, ys, win) ==
    CHOOSE r \in {Finish(v, D, Len(xs), Len(ys)) : D \in {Table(v, d, xs, ys, win)}} : TRUE

\* a window cell outside the grid: x[i - 1] or y[j - 1] is no element
OutOfGrid(w, len_x, len_y) ==
    \E k \in 1..Len(w) : w[k][1] < 0 \/ w[k][1] >= len_x \/ w[k][2] < 0 \/ w[k][2] >= len_y

\* ys with an element g at index 0, the place y[j - 1] reads for the cell (i, -1)
Pad(ys, g) == [j \in 0..Len(ys) |-> IF j = 0 THEN g ELSE ys[j]]

\* what dtw of a map variant may do on the window w that __expand_window
\* built.  Its rows are rows of the grid and its columns are -1..len_y-1; for
\* a cell (i, -1) the loop reads y[j - 1] with j = 0, outside the sequence
\* and unchecked (boundscheck=False): the read crashes, or yields some
\* element g and the loop goes on, populating column 0 of the table.
dtw_outcomes(v, d, xs, ys, w) ==
    IF ~OutOfGrid(w, Len(xs), Len(ys)) THEN {dtw(v, d, xs, ys, Given(w))}
    ELSE {Fault("OutOfBounds")}
         \cup {Finish(v, D, Len(xs), Len(ys)) :
                  D \in {Fill(v, d, xs, Pad(ys, g), w, 1, Len(w), D0) : g \in Values}}

(***************************************************************************)
(* The coarsener.                                                          *)
(***************************************************************************)
\* __reduce_by_half: floor(len / 2) pairwise averages, a trailing element dropped
reduce_by_half(xs) ==
    [k \in 1..(Len(xs) \div 2) |-> (xs[2 * k - 1] + xs[2 * k]) \div 2]

\* no average of xs is rounded by the integer division above
Halves(xs) == \A k \in 1..(Len(xs) \div 2) : (xs[2 * k - 1] + xs[2 * k]) % 2 = 0

(***************************************************************************)
(* The window expander.                                                    *)
(***************************************************************************)
\* the offsets (a, b), a and b in -radius..radius, in the order the loops write them
Offsets(radius) ==
    LET side == 2 * radius + 1
    IN  [k \in 1..(side * side) |->
            <<((k - 1) \div side) - radius, ((k - 1) % side) - radius>>]

\* what the offset vector may hold when the dilation loop reads it.  For
\* radius >= 0 the loops have written all (2 radius + 1)^2 entries.  For
\* radius = -1 the loops run zero times while len_vec is 1: the map variants
\* read one entry of reserved, never written storage (any pair of ints), the
\* defaultdict variant has an empty list.
UninitPairs == {<<0, 0>>, <<1, 1>>, <<-1, 0>>}

VecChoices(v, radius) ==
    IF radius >= 0 THEN {Offsets(radius)}
    ELSE IF v = "dict" THEN {<<>>}
    ELSE {<<g>> : g \in UninitPairs}

\* step 1, dilation: the halo of the path (the defaultdict variant starts from set(path))
Halo(v, path, vec) ==
    (IF v = "dict" THEN {path[p] : p \in 1..Len(path)} ELSE {})
    \cup {<<path[p][1] + vec[k][1], path[p][2] + vec[k][2]>> :
             p \in 1..Len(path), k \in 1..Len(vec)}

\* Children without the last insert
ChildrenNoCorner(c) ==
    {<<2 * c[1], 2 * c[2]>>, <<2 * c[1], 2 * c[2] + 1>>, <<2 * c[1] + 1, 2 * c[2]>>}

\* step 2, projection: the four children of every halo cell
Children(c) ==
    {<<2 * c[1], 2 * c[2]>>, <<2 * c[1], 2 * c[2] + 1>>,
     <<2 * c[1] + 1, 2 * c[2]>>, <<2 * c[1] + 1, 2 * c[2] + 1>>}

Projection(halo) == UNION {Children(c) : c \in halo}

\* step 3, one row of the compaction scan: columns j..len_y-1 of row i
RECURSIVE ScanRow(_, _, _, _, _, _)
ScanRow(window_, i, j, len_y, new_start_j, acc) ==
    IF j >= len_y THEN [cells |-> acc, new_start_j |-> new_start_j]
    ELSE IF <<i, j>> \in window_
      THEN ScanRow(window_, i, j + 1, len_y,
                   IF new_start_j = -1 THEN j ELSE new_start_j, Append(acc, <<i, j>>))
    ELSE IF new_start_j # -1
      THEN [cells |-> acc, new_start_j |-> new_start_j]
    ELSE ScanRow(window_, i, j + 1, len_y, new_start_j, acc)

\* NextStart one column too far
NextStartPlusOne(new_start_j) == new_start_j + 1

\* the cursor the next row starts from
NextStart(new_start_j) == new_start_j

\* step 3, the rows 0..len_x-1 with the cursor start_j
RECURSIVE ScanRows(_, _, _, _, _, _)
ScanRows(window_, i, len_x, len_y, start_j, acc) ==
    IF i >= len_x THEN acc
    ELSE CHOOSE rows \in
             {ScanRows(window_, i + 1, len_x, len_y, NextStart(r.new_start_j), acc \o r.cells) :
                 r \in {ScanRow(window_, i, start_j, len_y, -1, <<>>)}} : TRUE

\* expand_window with the row loop ending one row early
expand_window_short(v, path, len_x, len_y, vec) ==
    CHOOSE cells \in {ScanRows(window_, 0, len_x - 1, len_y, 0, <<>>) :
                         window_ \in {Projection(Halo(v, path, vec))}} : TRUE

\* __expand_window(path, len_x, len_y, radius), the offset vector holding vec
expand_window(v, path, len_x, len_y, vec) ==
    CHOOSE cells \in {ScanRows(window_, 0, len_x, len_y, 0, <<>>) :
                         window_ \in {Projection(Halo(v, path, vec))}} : TRUE

(***************************************************************************)
(* The recursive driver, one action per call and return.                   *)
(***************************************************************************)
Frame(xs, ys) == [x |-> xs, y |-> ys]
Top == stack[Len(stack)]
Pop == SubSeq(stack, 1, Len(stack) - 1)

\* the radius of the call in progress
radius == radii[Len(results) + 1]

\* min_time_size one too small
min_time_size_low(r) == r + 1

min_time_size(r) == r + 2

\* the base-case test of __fastdtw
IsBase(xs, ys, r) == Len(xs) < min_time_size(r) \/ Len(ys) < min_time_size(r)

\* BaseResult on the coarsened sequences
BaseResultCoarse(v, d, xs, ys) == dtw(v, d, reduce_by_half(xs), reduce_by_half(ys), None)

\* the base case's result: dtw(x, y, dist=dist)
BaseResult(v, d, xs, ys) == dtw(v, d, xs, ys, None)

\* a callee's value reaches its caller; the outermost caller files it
Deliver(val) ==
    /\ ret' = val
    /\ stack' = Pop
    /\ IF Len(stack) = 1
         THEN pc' = "idle" /\ results' = Append(results, val)
         ELSE pc' = "return" /\ UNCHANGED results

\* a fault (an exception, a crash) unwinds every frame
Raise(val) ==
    /\ ret' = val
    /\ stack' = <<>>
    /\ pc' = "idle"
    /\ results' = Append(results, val)

\* the caller calls fastdtw(x, y, radius, dist)
Call ==
    /\ pc = "idle"
    /\ Len(results) < Len(radii)
    /\ stack' = <<Frame(x, y)>>
    /\ pc' = "call"
    /\ UNCHANGED <<impl, dist, x, y, radii, window, cpath, lens, ret, results>>

\* __fastdtw, base case: exact dtw of the frame's sequences
Base ==
    /\ pc = "call"
    /\ IsBase(Top.x, Top.y, radius)
    /\ \E val \in {BaseResult(impl, dist, Top.x, Top.y)} :
          IF val.kind = "value" THEN Deliver(val) ELSE Raise(val)
    /\ UNCHANGED <<impl, dist, x, y, radii, window, cpath, lens>>

\* __fastdtw, recursive case: coarsen both sequences and call fastdtw on them
Descend ==
    /\ pc = "call"
    /\ ~IsBase(Top.x, Top.y, radius)
    /\ stack' = Append(stack, Frame(reduce_by_half(Top.x), reduce_by_half(Top.y)))
    /\ UNCHANGED <<impl, dist, x, y, radii, window, cpath, lens, pc, ret, results>>

\* __fastdtw, after the recursive call: expand its path and solve inside the window
Ascend ==
    /\ pc = "return"
    /\ \E vec \in VecChoices(impl, radius) :
          \E w \in {expand_window(impl, ret.path, Len(Top.x), Len(Top.y), vec)} :
              \E val \in dtw_outcomes(impl, dist, Top.x, Top.y, w) :
                  IF val.kind = "value" THEN Deliver(val) ELSE Raise(val)
    /\ UNCHANGED <<impl, dist, x, y, radii, window, cpath, lens>>

Done == pc = "idle" /\ Len(results) = Len(radii)

\* no average taken so far was rounded: the integers of the model are the
\* program's floats exactly
Exact ==
    \A k \in 1..Len(stack) :
        (k < Len(stack) \/ pc = "return") => Halves(stack[k].x) /\ Halves(stack[k].y)

\* the caller calls dtw(x, y, window, dist) directly
CallDtw ==
    /\ pc = "idle"
    /\ results = <<>>
    /\ ret' = dtw(impl, dist, x, y, window)
    /\ results' = <<ret'>>
    /\ UNCHANGED <<impl, dist, x, y, radii, window, cpath, lens, stack, pc>>

\* a window handed back to a direct caller of __expand_window: its cells, in
\* the field path
Cells(w) == [kind |-> "window", cost |-> 0, path |-> w]

\* the caller calls __expand_window(cpath, len_x, len_y, radius) directly
CallExpand ==
    /\ pc = "idle"
    /\ results = <<>>
    /\ \E vec \in VecChoices(impl, radii[1]) :
          ret' = Cells(expand_window(impl, cpath, lens[1], lens[2], vec))
    /\ results' = <<ret'>>
    /\ UNCHANGED <<impl, dist, x, y, radii, window, cpath, lens, stack, pc>>

(***************************************************************************)
(* The inputs.                                                             *)
(***************************************************************************)
Inputs == SeqsUpTo(Values, MaxLen)

\* the radii of the fastdtw calls: the small ones, and one as long as the
\* longest sequence
Radii == (0..MaxRadius) \cup {MaxLen}

\* every warping path from (0, 0) to (m - 1, n - 1), m, n >= 1
RECURSIVE PathsTo(_, _)
PathsTo(i, j) ==
    IF i = 0 /\ j = 0 THEN {<<<<0, 0>>>>}
    ELSE {Append(p, <<i, j>>) :
            p \in (IF i > 0 THEN PathsTo(i - 1, j) ELSE {})
                  \cup (IF j > 0 THEN PathsTo(i, j - 1) ELSE {})
                  \cup (IF i > 0 /\ j > 0 THEN PathsTo(i - 1, j - 1) ELSE {})}

WarpingPaths(m, n) == IF m < 1 \/ n < 1 THEN {} ELSE PathsTo(m - 1, n - 1)

\* the cells of the set S of grid cells as a list in row-major order
RECURSIVE RowMajor(_, _, _)
RowMajor(S, len_y, k) ==
    IF S = {} THEN <<>>
    ELSE LET c == CHOOSE c \in S : \A e \in S : c[1] * len_y + c[2] <= e[1] * len_y + e[2]
         IN  <<c>> \o RowMajor(S \ {c}, len_y, k + 1)

Grid(len_x, len_y) == (0..(len_x - 1)) \X (0..(len_y - 1))

\* the window arguments of a direct dtw call: none, or any set of grid cells
\* as a row-major list
DtwWindows(len_x, len_y) ==
    {None} \cup {Given(RowMajor(S, len_y, 1)) : S \in SUBSET Grid(len_x, len_y)}

Quiet ==
    /\ stack = <<>>
    /\ pc = "idle"
    /\ ret = Value(0, <<>>)
    /\ results = <<>>

\* one fastdtw call per behaviour, radius >= 0
Init ==
    /\ impl = "map"
    /\ dist \in DistKinds
    /\ x \in Inputs
    /\ y \in Inputs
    /\ radii \in {<<r>> : r \in Radii}
    /\ window = None
    /\ cpath = <<>>
    /\ lens = <<0, 0>>
    /\ Quiet

Next == Call \/ Base \/ Descend \/ Ascend

Spec == Init /\ [][Next]_vars

\* one fastdtw call with radius -1
InitNeg ==
    /\ impl = "map"
    /\ dist \in DistKinds
    /\ x \in Inputs
    /\ y \in Inputs
    /\ radii = <<-1>>
    /\ window = None
    /\ cpath = <<>>
    /\ lens = <<0, 0>>
    /\ Quiet

SpecNeg == InitNeg /\ [][Next]_vars

\* one direct dtw call: any window on the short inputs, no window on the others
InitDtw ==
    /\ impl \in {"map", "dict"}
    /\ dist \in DistKinds
    /\ \/ /\ x \in SeqsUpTo(Values, MaxDtwLen)
          /\ y \in SeqsUpTo(Values, MaxDtwLen)
          /\ Len(x) * Len(y) <= MaxCells
          /\ window \in DtwWindows(Len(x), Len(y))
       \/ /\ x \in Inputs
          /\ y \in Inputs
          /\ window = None
    /\ radii = <<>>
    /\ cpath = <<>>
    /\ lens = <<0, 0>>
    /\ Quiet

NextDtw == CallDtw

SpecDtw == InitDtw /\ [][NextDtw]_vars

\* one direct expand_window call on a warping path of the coarse grid
InitExpand ==
    /\ impl \in {"map", "dict"}
    /\ dist = "abs"
    /\ x = <<>>
    /\ y = <<>>
    /\ radii \in {<<r>> : r \in 0..MaxRadius}
    /\ window = None
    /\ lens \in (2..MaxGrid) \X (2..MaxGrid)
    /\ cpath \in WarpingPaths(lens[1] \div 2, lens[2] \div 2)
    /\ Quiet

NextExpand == CallExpand

SpecExpand == InitExpand /\ [][NextExpand]_vars

(***************************************************************************)
(* Two fastdtw calls on the same sequences with radii 1 <= r1 <= r2 (the   *)
(* calls with radius 0 are those of Spec).  The sequences are the short    *)
(* ones, and a pair of square waves (in both orders) long enough for the    *)
(* radius 2 window to leave cells out.                                     *)
(***************************************************************************)
\* the sequence with runs[k] copies of the k-th value, the values alternating from first
RECURSIVE Wave(_, _)
Wave(runs, first) ==
    IF runs = <<>> THEN <<>>
    ELSE [k \in 1..Head(runs) |-> first] \o Wave(Tail(runs), Unit - first)

LongPairs ==
    {<<Wave(<<3, 5, 1, 1>>, 0), Wave(<<3, 4, 2, 2, 1>>, Unit)>>,
     <<Wave(<<3, 4, 2, 2, 1>>, Unit), Wave(<<3, 5, 1, 1>>, 0)>>}

ShortInputs == SeqsUpTo(Values, MaxShort)

\* a radius no shorter than any sequence of the model
BigRadius == 14

InitRadius ==
    /\ impl = "map"
    /\ dist \in DistKinds
    /\ \E pr \in (ShortInputs \X ShortInputs) \cup LongPairs : x = pr[1] /\ y = pr[2]
    /\ radii \in {<<r1, r2>> : r1 \in 1..MaxRadius, r2 \in (1..MaxRadius) \cup {BigRadius}}
    /\ radii[1] <= radii[2]
    /\ window = None
    /\ cpath = <<>>
    /\ lens = <<0, 0>>
    /\ Quiet

SpecRadius == InitRadius /\ [][Next]_vars

(***************************************************************************)
(* Vocabulary of the properties.                                           *)
(***************************************************************************)
Steps == {<<1, 0>>, <<0, 1>>, <<1, 1>>}

\* p is a warping path of the len_x by len_y grid
IsWarpingPath(p, len_x, len_y) ==
    /\ Len(p) >= 1
    /\ p[1] = <<0, 0>>
    /\ p[Len(p)] = <<len_x - 1, len_y - 1>>
    /\ \A k \in 1..(Len(p) - 1) :
          <<p[k + 1][1] - p[k][1], p[k + 1][2] - p[k][2]>> \in Steps

\* the result of the one finished call, and of the first and second of two
Result == results[1]
Second == results[2]
Returned == pc = "idle" /\ Len(results) = 1
ReturnedBoth == pc = "idle" /\ Len(results) = 2

\* exact dtw of the caller's sequences
ExactDtw == dtw(impl, dist, x, y, None)

MinLen == Min2(Len(x), Len(y))
MaxOfLens == Max2(Len(x), Len(y))

\* C1: for non-empty x and y and radius >= 0, the path fastdtw returns (and the
\* path exact dtw returns) starts at (0, 0), ends at (len(x)-1, len(y)-1) and
\* moves by the steps (+1,0), (0,+1), (+1,+1) only.
C1_PathIsWarpingPath ==
    (Returned /\ Len(x) >= 1 /\ Len(y) >= 1 /\ radii[1] >= 0) =>
        /\ Result.kind = "value"
        /\ IsWarpingPath(Result.path, Len(x), Len(y))
        /\ IsWarpingPath(ExactDtw.path, Len(x), Len(y))

\* C2: for non-empty x and y and radius >= 0, the cost fastdtw returns is at
\* least the cost exact dtw returns.
C2_CostAtLeastExact ==
    (Returned /\ Len(x) >= 1 /\ Len(y) >= 1 /\ radii[1] >= 0) =>
        /\ Result.kind = "value"
        /\ Result.cost >= ExactDtw.cost

C4_LargeRadiusIsExact ==
    (Returned /\ radii[1] >= MaxOfLens) =>
        /\ Result.kind = ExactDtw.kind
        /\ Result.cost = ExactDtw.cost

\* C4's case: such a call on sequences of two or more elements, at a cost above 0
C4_Witness ==
    /\ Returned
    /\ radii[1] >= MaxOfLens
    /\ Len(x) >= 3
    /\ Len(y) >= 2
    /\ Result.kind = "value"
    /\ Result.cost > 0

\* the cells a warping path may use in a direct dtw call
Allowed ==
    IF window.given THEN {window.cells[k] : k \in 1..Len(window.cells)}
    ELSE Grid(Len(x), Len(y))

\* the warping paths of the grid of x and y inside the window
PathsInWindow ==
    {p \in WarpingPaths(Len(x), Len(y)) : \A k \in 1..Len(p) : p[k] \in Allowed}

\* the sum of dist(x[i], y[j]) over the cells (i, j) of p
RECURSIVE PathSum(_)
PathSum(p) ==
    IF p = <<>> THEN 0
    ELSE Dist(dist, x[Head(p)[1] + 1], y[Head(p)[2] + 1]) + PathSum(Tail(p))

\* the result is a cost and a path, the cost is the sum along the path, and
\* it is the least sum of the warping paths in the set paths
IsOptimumOf(r, paths) ==
    /\ r.kind = "value"
    /\ \A k \in 1..Len(r.path) : r.path[k] \in Grid(Len(x), Len(y))
    /\ r.cost = PathSum(r.path)
    /\ LET sums == {PathSum(p) : p \in paths}
       IN  r.cost \in sums /\ \A c \in sums : r.cost <= c

\* C5 as stated: for non-empty x and y and any row-major window (or none),
\* the cost dtw returns is the sum of dist along the returned path and the
\* minimum of that sum over the warping paths inside the window.
C5_CostIsWindowMinimum ==
    (Returned /\ Len(x) >= 1 /\ Len(y) >= 1) => IsOptimumOf(Result, PathsInWindow)

\* C5, amended: the same, for the windows that hold at least one warping
\* path from (0, 0) to (len(x)-1, len(y)-1).
C5_CostIsMinimumOfFeasibleWindow ==
    (Returned /\ Len(x) >= 1 /\ Len(y) >= 1) =>
        LET paths == PathsInWindow
        IN  paths # {} => IsOptimumOf(Result, paths)

\* C5's case: a window that leaves cells out and makes the optimum dearer
\* than the optimum of the full grid
C5_Witness ==
    /\ Returned
    /\ window.given
    /\ PathsInWindow # {}
    /\ Len(x) >= 2
    /\ Len(y) >= 2
    /\ Result.kind = "value"
    /\ Result.cost > dtw(impl, dist, x, y, None).cost

\* C6: fastdtw with a negative radius ends in InvalidRadius before any
\* coarsening, window expansion or dtw computation; nothing is returned.
C6_NegativeRadiusRejected ==
    (radii # <<>> /\ radii[1] < 0) =>
        /\ Len(stack) <= 1
        /\ \A k \in 1..Len(results) : results[k].kind = "InvalidRadius"

\* the terminal cell (len(x), len(y)) is in the cost table after the loop
TerminalPopulated == <<Len(x), Len(y)>> \in DOMAIN Table(impl, dist, x, y, window)

\* C7: when the window does not populate the terminal cell, dtw ends in the
\* error IncompleteWindow and returns no (cost, path).
C7_IncompleteWindowIsError ==
    (Returned /\ ~TerminalPopulated) => Result.kind = "IncompleteWindow"

Symmetric(d) == \A a \in Values, b \in Values : Dist(d, a, b) = Dist(d, b, a)

\* C8: for a symmetric dist and non-empty x and y, exact dtw of (x, y) and
\* of (y, x) cost the same.
C8_ExactCostSymmetric ==
    (Returned /\ ~window.given /\ Symmetric(dist) /\ Len(x) >= 1 /\ Len(y) >= 1) =>
        /\ Result.kind = "value"
        /\ Result.cost = dtw(impl, dist, y, x, None).cost

\* the transpose of a path
Transpose(p) == [k \in 1..Len(p) |-> <<p[k][2], p[k][1]>>]

\* C8's case: sequences of different lengths at a cost above 0, whose two
\* paths are not each other's transpose
C8_Witness ==
    /\ Returned
    /\ ~window.given
    /\ Symmetric(dist)
    /\ Len(x) >= 2
    /\ Len(y) > Len(x)
    /\ Result.kind = "value"
    /\ Result.cost > 0
    /\ dtw(impl, dist, y, x, None).path # Transpose(Result.path)

\* the predecessor the tie-break policy gives cell (i, j) of table D
PolicyPrev(D, i, j) ==
    LET up == get_cost(D, i - 1, j)
        left == get_cost(D, i, j - 1)
        corner == get_cost(D, i - 1, j - 1)
    IN  IF up < left /\ up < corner THEN <<i - 1, j>>
        ELSE IF left < corner THEN <<i, j - 1>>
        ELSE <<i - 1, j - 1>>

\* C9: in every variant, each processed cell records the predecessor of the
\* policy (up if up < left and up < corner, else left if left < corner, else
\* corner), and so the variants return the same path on sequences with ties.
C9_TieBreakPolicy ==
    (Returned /\ Len(x) >= 1 /\ Len(y) >= 1) =>
        LET D == Table(impl, dist, x, y, window)
        IN  /\ \A c \in DOMAIN D \ {<<0, 0>>} :
                  <<D[c].prev_x_idx, D[c].prev_y_idx>> = PolicyPrev(D, c[1], c[2])
            /\ ~window.given => Result = dtw("map", dist, x, y, window)

\* the candidate cells of the direct expand_window call that lie in the grid
InGridCandidates ==
    Projection(Halo(impl, cpath, Offsets(radii[1]))) \cap Grid(lens[1], lens[2])

\* C10: for radius >= 0 and a warping path of the coarse grid, expand_window
\* returns exactly the in-grid candidate cells, in ascending row-major order
\* without duplicates, and no cell with a negative coordinate.
C10_WindowIsInGridCandidates ==
    (Returned /\ radii[1] >= 0) =>
        LET w == Result.path
        IN  /\ {w[k] : k \in 1..Len(w)} = InGridCandidates
            /\ \A k \in 1..(Len(w) - 1) :
                  w[k][1] * lens[2] + w[k][2] < w[k + 1][1] * lens[2] + w[k + 1][2]
            /\ \A k \in 1..Len(w) : w[k][1] >= 0 /\ w[k][2] >= 0

\* C10's case: a window that is not the whole grid, whose rows do not all
\* start at column 0, with candidate cells beyond the grid
C10_Witness ==
    /\ Returned
    /\ radii[1] >= 1
    /\ Len(Result.path) < lens[1] * lens[2]
    /\ \E k \in 1..(Len(Result.path) - 1) :
          /\ Result.path[k + 1][1] = Result.path[k][1] + 1
          /\ Result.path[k + 1][2] > 0
    /\ Projection(Halo(impl, cpath, Offsets(radii[1]))) \ Grid(lens[1], lens[2]) # {}

(***************************************************************************)
(* Termination and the depth of the recursion.                             *)
(***************************************************************************)
\* one fastdtw call on constant sequences of every length up to MaxLiveLen
\* (the lengths and the radius alone decide the calls that are made)
MaxLiveLen == 5

InitLive ==
    /\ impl = "map"
    /\ dist = "abs"
    /\ \E n \in 0..MaxLiveLen, a \in Values : x = [k \in 1..n |-> a]
    /\ \E n \in 0..MaxLiveLen, b \in Values : y = [k \in 1..n |-> b]
    /\ radii \in {<<r>> : r \in 0..MaxRadius}
    /\ window = None
    /\ cpath = <<>>
    /\ lens = <<0, 0>>
    /\ Quiet

\* a call that has started runs on: the program is sequential and every step
\* of __fastdtw is a finite loop or a call
SpecLive == InitLive /\ [][Next]_vars /\ WF_vars(Next)

\* floor(log2(n)), 0 for n below 2
RECURSIVE Log2Floor(_)
Log2Floor(n) == IF n < 2 THEN 0 ELSE 1 + Log2Floor(n \div 2)

\* the shorter length of a frame
FrameMin(f) == Min2(Len(f.x), Len(f.y))

\* the frames of the recursion: each nested call got the halves of its
\* caller's sequences, only callers with min(len) >= radius + 2 made one, and
\* there are at most floor(log2(min(len(x), len(y)))) nested calls
RecursionShape ==
    (stack # <<>> /\ radius >= 0) =>
        /\ stack[1] = Frame(x, y)
        /\ \A k \in 2..Len(stack) :
              /\ Len(stack[k].x) = Len(stack[k - 1].x) \div 2
              /\ Len(stack[k].y) = Len(stack[k - 1].y) \div 2
        /\ \A k \in 1..(Len(stack) - 1) : FrameMin(stack[k]) >= radius + 2
        /\ pc = "return" => FrameMin(Top) >= radius + 2
        /\ Len(stack) - 1 <= Log2Floor(MinLen)

\* the step of a call that has just been entered: with min(len) < radius + 2
\* it is the base case (the call returns, exact dtw its result), otherwise a
\* nested call
BaseWhenShort ==
    (pc = "call" /\ radius >= 0) =>
        IF FrameMin(Top) < radius + 2
          THEN /\ Len(stack') = Len(stack) - 1
               /\ ret' = dtw(impl, dist, Top.x, Top.y, None)
          ELSE Len(stack') = Len(stack) + 1

\* C11: for radius >= 0, fastdtw eventually returns; each recursive call gets
\* sequences of length floor(len / 2), the base case is taken when
\* min(len(x), len(y)) < radius + 2, and the nested recursive calls number at
\* most floor(log2(min(len(x), len(y)))), none when the minimum is below 2.
C11_ReturnsWithinLogDepth ==
    /\ []RecursionShape
    /\ [][BaseWhenShort]_vars
    /\ (radii[1] >= 0) => <>(Done /\ Result.kind = "value")

\* C11's case: the recursion at its deepest, two nested calls on sequences
\* of different lengths, the shorter 4 or more, about to take the base case
C11_Witness ==
    /\ pc = "call"
    /\ radius = 0
    /\ Len(stack) = 3
    /\ MinLen >= 4
    /\ Len(x) # Len(y)
    /\ Len(stack) - 1 = Log2Floor(MinLen)
    /\ FrameMin(Top) < radius + 2

(***************************************************************************)
(* The window and the cost table of every level of the recursion.          *)
(***************************************************************************)
\* a pair of square waves of odd lengths, 11 and 13, in both orders
OddPairs ==
    {<<Wave(<<3, 5, 1, 1, 1>>, 0), Wave(<<3, 4, 2, 2, 2>>, Unit)>>,
     <<Wave(<<3, 4, 2, 2, 2>>, Unit), Wave(<<3, 5, 1, 1, 1>>, 0)>>}

\* one fastdtw call of either variant with radius >= 1 on the short sequences
\* and the odd pairs
InitLevels ==
    /\ impl \in {"map", "dict"}
    /\ dist \in DistKinds
    /\ \E pr \in (ShortInputs \X ShortInputs) \cup OddPairs : x = pr[1] /\ y = pr[2]
    /\ radii \in {<<r>> : r \in 1..MaxRadius}
    /\ window = None
    /\ cpath = <<>>
    /\ lens = <<0, 0>>
    /\ Quiet

SpecLevels == InitLevels /\ [][Next]_vars

\* at pc = "return": the window the top frame builds from the path its
\* callee returned, and the cost table its dtw pass fills
LevelWindow == expand_window(impl, ret.path, Len(Top.x), Len(Top.y), Offsets(radius))
LevelTable == Table(impl, dist, Top.x, Top.y, Given(LevelWindow))

\* the window w of a len_x by len_y level holds both corners, every entry of
\* its table D but the origin has a populated predecessor, the terminal entry
\* is populated at a finite cost, and the backtracking reads populated
\* entries only
LevelSound(w, D, len_x, len_y) ==
    /\ \E k \in 1..Len(w) : w[k] = <<0, 0>>
    /\ \E k \in 1..Len(w) : w[k] = <<len_x - 1, len_y - 1>>
    /\ \A c \in DOMAIN D \ {<<0, 0>>} : <<D[c].prev_x_idx, D[c].prev_y_idx>> \in DOMAIN D
    /\ <<len_x, len_y>> \in DOMAIN D
    /\ D[<<len_x, len_y>>].cost < Inf
    /\ LET seen == Visited(D, len_x, len_y)
       IN  \A k \in 1..Len(seen) : seen[k] \in DOMAIN D

====
